---- MODULE Spec2Model ----
(***************************************************************************)
(* Model of the Go MCP server src/src/main.go (kakao_map_place_recommender).*)
(* One invocation of the tool callback searchTool is modelled as a state    *)
(* machine: its program counter, its local variables, the two goroutines    *)
(* it spawns per map document, the progress notifications it hands to the   *)
(* session, its return value, and the log of upstream requests it makes     *)
(* through makeKakaoRequest.  The context passed to the callback may be     *)
(* cancelled at any moment while the callback runs.                         *)
(*                                                                          *)
(* Spec and FairSpec call searchTool directly, with kakaoAPIKey holding     *)
(* either value.  DetSpec calls it twice with the same request against a    *)
(* Kakao API that repeats its answers.  MainSpec starts the process at      *)
(* main and lets a request in once the server listens.  DeliverySpec loses  *)
(* the session while searchTool runs.  IsoSpec starts the process at main   *)
(* and runs two calls of searchTool at the same time, the scheduler moving  *)
(* from one to the other at any step.                                       *)
(*                                                                          *)
(* Strings that end up as the query of an upstream request (options.Query,  *)
(* PlaceName) are sequences of characters; the other strings, which the     *)
(* code only copies, are TLA+ strings.                                      *)
(***************************************************************************)
EXTENDS Integers, Sequences, FiniteSets, TLC

VARIABLES
    envKey,         \* KAKAO_API_KEY in the environment of the process
    mainPc,         \* position of main ("notRun": searchTool is called without main)
    gateway,        \* the Kakao API: whether it answers as a function of the request, and its answers so far
    invocation,     \* 1, or 2 once the same request has been made again
    earlier,        \* what the first of two invocations notified and returned
    other,          \* the local variables of a second, concurrent call of searchTool while it is not the one taking steps
    running,        \* which of the two concurrent calls is taking steps
    lostFrom,       \* 0, or once the session is lost the position of the first notification handed after that
    kakaoAPIKey,    \* package variable kakaoAPIKey
    query,          \* options.Query, a sequence of characters
    progressToken,  \* req.Params.GetProgressToken()
    ctxDone,        \* TRUE once ctx has been cancelled
    cancelAt,       \* loop iteration that was between spawn and join when ctx was cancelled (0: none)
    pc,             \* position of searchTool
    mapFetch,       \* the call of fetchMapDocuments: the response it received, the error it returned
    mapDocuments,   \* local mapDocuments
    idx,            \* 1-based position of the range loop in mapDocuments
    wg,             \* counter of the iteration's sync.WaitGroup
    web,            \* first goroutine and its result slots webDocs, webErr
    img,            \* second goroutine and its result slots imgDoc, imgErr
    progress,       \* notifications handed to serverSession.NotifyProgress, in order
    result,         \* what searchTool returned
    calls           \* upstream requests made through makeKakaoRequest so far

vars == <<envKey, mainPc, gateway, invocation, earlier, other, running, lostFrom, kakaoAPIKey, query, progressToken, ctxDone, cancelAt, pc, mapFetch,
          mapDocuments, idx, wg, web, img, progress, result, calls>>

\* What one run of searchTool leaves alone.
outer == <<envKey, mainPc, invocation, earlier, other, running, lostFrom>>

----------------------------------------------------------------------------
(* Bounds *)

\* Longest list of documents place search returns.
MaxDocs == 2

----------------------------------------------------------------------------
(* Values *)

RECURSIVE SeqsUpTo(_, _)
SeqsUpTo(S, n) ==
    IF n = 0 THEN {<<>>}
    ELSE LET shorter == SeqsUpTo(S, n - 1)
         IN  shorter \cup {Append(s, x) : s \in {t \in shorter : Len(t) = n - 1}, x \in S}

\* The empty query, a query of one blank, and an ordinary one.
Queries == {<<>>, <<" ">>, <<"a">>}

APIKeys == {"", "key"}

Tokens == {"tok"}

MapDocument(name, addr) ==
    [PlaceName |-> name, AddressName |-> addr, CategoryName |-> "cat",
     PlaceURL |-> "url", Phone |-> "phone"]

\* Place search may return the same place name more than once.
MapDocs == {MapDocument(<<"A">>, "addr1"), MapDocument(<<"B">>, "addr2")}
MapLists == SeqsUpTo(MapDocs, MaxDocs)

zeroMapDocument ==
    [PlaceName |-> <<>>, AddressName |-> "", CategoryName |-> "", PlaceURL |-> "", Phone |-> ""]

WebDocument == [Title |-> "title", Contents |-> "contents"]
WebLists == {<<>>, <<WebDocument>>}

ImageDocument(u) == [ImageURL |-> u]
ImgLists == {<<>>, <<ImageDocument("img1"), ImageDocument("img2")>>}

zeroImageDocument == ImageDocument("")

systemPrompt == "systemPrompt"

StatusOK == 200
Statuses == {200, 204, 500}

\* A body that is not JSON.
Malformed == [wellFormed |-> FALSE, documents |-> <<>>]

Body(docs) == [wellFormed |-> TRUE, documents |-> docs]

\* An upstream answer: the transport may fail (timeout, reset, cancelled
\* context); otherwise there is a status and a body that is either not JSON
\* or a {documents: [...]} object.
Responses(Lists) ==
    [transportOk : {FALSE}, status : {0}, body : {Malformed}]
    \cup [transportOk : {TRUE}, status : Statuses,
          body : {Malformed} \cup {Body(d) : d \in Lists}]

TransportFailure == [transportOk |-> FALSE, status |-> 0, body |-> Malformed]

----------------------------------------------------------------------------
(* Upstream gateway *)

\* Variant: the status of the response is not looked at.
makeKakaoRequest_anyStatus(resp) ==
    IF ~resp.transportOk THEN [err |-> "request failed", target |-> <<>>]
    ELSE IF ~resp.body.wellFormed THEN [err |-> "decode", target |-> <<>>]
    ELSE [err |-> "nil", target |-> resp.body]

\* makeKakaoRequest: error unless the request went through, the status is
\* 200 and the body decodes; on success target holds the decoded response.
makeKakaoRequest(resp) ==
    IF ~resp.transportOk THEN [err |-> "request failed", target |-> <<>>]
    ELSE IF resp.status # StatusOK THEN [err |-> "status", target |-> <<>>]
    ELSE IF ~resp.body.wellFormed THEN [err |-> "decode", target |-> <<>>]
    ELSE [err |-> "nil", target |-> resp.body]

fetchMapDocuments(resp) ==
    LET r == makeKakaoRequest(resp)
    IN  IF r.err # "nil" THEN [docs |-> <<>>, err |-> r.err]
        ELSE [docs |-> r.target.documents, err |-> "nil"]

fetchWebDocuments(resp) ==
    LET r == makeKakaoRequest(resp)
    IN  IF r.err # "nil" THEN [docs |-> <<>>, err |-> r.err]
        ELSE [docs |-> r.target.documents, err |-> "nil"]

\* Variant: an empty documents list is reported as an error.
fetchImageDocument_strict(resp) ==
    LET r == makeKakaoRequest(resp)
    IN  IF r.err # "nil" THEN [doc |-> zeroImageDocument, err |-> r.err]
        ELSE IF Len(r.target.documents) > 0
             THEN [doc |-> r.target.documents[1], err |-> "nil"]
             ELSE [doc |-> zeroImageDocument, err |-> "no image"]

fetchImageDocument(resp) ==
    LET r == makeKakaoRequest(resp)
    IN  IF r.err # "nil" THEN [doc |-> zeroImageDocument, err |-> r.err]
        ELSE IF Len(r.target.documents) > 0
             THEN [doc |-> r.target.documents[1], err |-> "nil"]
             ELSE [doc |-> zeroImageDocument, err |-> "nil"]

\* The Kakao API answering anything, and answering as a function of the
\* operation and its query (answers: the part of that function seen so far).
Arbitrary == [fixed |-> FALSE, answers |-> {}]
Deterministic == [fixed |-> TRUE, answers |-> {}]

\* The answers of a deterministic API: no answer, an error status, or 200
\* with a body that is not JSON or is a documents object.
MockResponses(Lists) ==
    {TransportFailure}
    \cup [transportOk : {TRUE}, status : {500}, body : {Malformed}]
    \cup [transportOk : {TRUE}, status : {StatusOK},
          body : {Malformed} \cup {Body(d) : d \in Lists}]

AnswersTo(gw, c) == {a \in gw.answers : a.op = c.op /\ a.query = c.query}

\* A request made with an already cancelled context never gets an answer;
\* one that is in flight when the context is cancelled may still get one.
\* A deterministic API repeats the answer it gave to the same request.
Answers(Lists, gw, c) ==
    IF c.doomed THEN {TransportFailure}
    ELSE IF AnswersTo(gw, c) # {} THEN {a.resp : a \in AnswersTo(gw, c)}
    ELSE IF gw.fixed THEN MockResponses(Lists)
    ELSE Responses(Lists)

Answered(gw, c, resp) ==
    IF gw.fixed /\ ~c.doomed
    THEN [gw EXCEPT !.answers = @ \cup {[op |-> c.op, query |-> c.query, resp |-> resp]}]
    ELSE gw

\* One request: the operation, its query, the loop iteration it was made for
\* (0: place search), n-th request of that operation in that iteration, and
\* whether ctx was already cancelled when it was made.
Call(log, op, q, cand, doomed) ==
    [op |-> op, query |-> q, cand |-> cand,
     n |-> 1 + Cardinality({c \in log : c.op = op /\ c.cand = cand}),
     doomed |-> doomed, outcome |-> "inflight"]

\* The request in flight for operation op of iteration cand.
Pending(log, op, cand) ==
    CHOOSE c \in log : c.op = op /\ c.cand = cand /\ c.outcome = "inflight"

Settled(log, c, err) ==
    (log \ {c}) \cup {[c EXCEPT !.outcome = IF err = "nil" THEN "ok" ELSE "err"]}

----------------------------------------------------------------------------
(* searchTool *)

credentialErrorText == "Tool Execution Failed: KAKAO_API_KEY is not configured."
queryErrorText == "Query is empty"
completeText == "Search complete. All results have been streamed."

NoResult == [kind |-> "none"]
ToolResult(isError, text) == [kind |-> "result", IsError |-> isError, Content |-> <<text>>]
GoError(text) == [kind |-> "error", error |-> text]

\* Variant: the per-request guard is missing.
credentialMissing_never(key) == FALSE

\* Variant: the credential guard stands after the query guard.
credentialMissing_afterQuery(key) == key = "" /\ ~(query = <<>>)

credentialMissing(key) == key = ""

\* Variant: the query is not looked at.
queryEmpty_never(q) == FALSE

queryEmpty(q) == q = <<>>

\* Variant: the error of fetchMapDocuments is not looked at.
mapFetchFatal_never(err) == FALSE

mapFetchFatal(err) == err # "nil"

\* Variant: wg.Add(1) for two goroutines.
wgAdd_one == 2 - 1

wgAdd == 2

\* Variant: wg.Wait() returns when the first goroutine is done.
waitDone_first(n) == n <= 1

\* wg.Wait() returns when the counter is zero.
waitDone(n) == n = 0

\* Variant: && in place of ||.
enrichFailed_both(webErr, imgErr) == webErr # "nil" /\ imgErr # "nil"

enrichFailed(webErr, imgErr) == webErr # "nil" \/ imgErr # "nil"

\* Variant: the loop walks the slice from its end.
rangeElem_reverse(docs, i) == docs[Len(docs) + 1 - i]

\* The element the range loop visits in its i-th iteration.
rangeElem(docs, i) == docs[i]

\* Variant: the comments are left out of the result.
KakaoLocalSearchResult_noComments(doc, webDocs, imgDoc) ==
    [PlaceName |-> doc.PlaceName, AddressName |-> doc.AddressName,
     CategoryName |-> doc.CategoryName, PlaceURL |-> doc.PlaceURL,
     Phone |-> doc.Phone, ImageURL |-> imgDoc.ImageURL, Comments |-> <<>>]

KakaoLocalSearchResult(doc, webDocs, imgDoc) ==
    [PlaceName |-> doc.PlaceName, AddressName |-> doc.AddressName,
     CategoryName |-> doc.CategoryName, PlaceURL |-> doc.PlaceURL,
     Phone |-> doc.Phone, ImageURL |-> imgDoc.ImageURL, Comments |-> webDocs]

\* json.Marshal of a KakaoLocalSearchResult: the fields in declaration order
\* under their json names.  A struct of strings and a slice of structs of
\* strings always encodes, so err is nil.
jsonMarshal(r) ==
    [err |-> "nil",
     bytes |-> << <<"place_name", r.PlaceName>>, <<"address_name", r.AddressName>>,
                  <<"category_name", r.CategoryName>>, <<"place_url", r.PlaceURL>>,
                  <<"phone", r.Phone>>, <<"image_url", r.ImageURL>>,
                  <<"comments", r.Comments>> >>]

\* Variant: only the prompt carries the caller's progress token.
Notification_untagged(msg, cand) ==
    [token |-> IF cand = 0 THEN progressToken ELSE "", message |-> msg, cand |-> cand]

\* cand records the loop iteration that made the call (0: before the loop).
Notification(msg, cand) == [token |-> progressToken, message |-> msg, cand |-> cand]

\* What NotifyProgress may return; searchTool assigns it to the blank identifier.
NotifyErrors == {"nil", "send failed"}

\* What NotifyProgress returns for the n-th notification: an error for sure
\* once the session is lost.
NotifyResults(lost, n) == IF lost > 0 /\ n >= lost THEN {"send failed"} ELSE NotifyErrors

\* Variant: searchTool returns the error of NotifyProgress.
afterNotify_return(err) == IF err # "nil" THEN "return" ELSE "continue"

\* `_ = serverSession.NotifyProgress(...)`: whatever the error, go on.
afterNotify(err) == "continue"

\* Variant: the prompt is never notified.
announceNotifications_none(msg) == <<>>

\* The notification made before the map fetch: one message, cand 0.
announceNotifications(msg) == <<Notification(msg, 0)>>

\* Variant: the result is notified twice.
resultNotifications_twice(msg, cand) == <<Notification(msg, cand), Notification(msg, cand)>>

\* The notifications one successfully enriched map document gives rise to.
resultNotifications(msg, cand) == <<Notification(msg, cand)>>

\* Variant: a search that streamed nothing is reported as an error.
completionIsError_whenNone(emitted) == emitted = 0

\* IsError of the final result (left at its zero value).
completionIsError(emitted) == FALSE

\* Variant: the final result also carries what was streamed.
completionContent_withResults(streamed) == <<completeText>> \o streamed

\* Content of the final result: one text, whatever was streamed.
completionContent(streamed) == <<completeText>>

\* Variant: both goroutines assign their error to webErr.
errSlot_shared(op) == "webErr"

\* The error variable each goroutine assigns: webDocs, webErr = ... in the
\* first, imgDoc, imgErr = ... in the second.
errSlot(op) == IF op = "web" THEN "webErr" ELSE "imgErr"

\* Variant: the goroutines return without wg.Done().
wgDone_forgotten(n) == n

\* defer wg.Done()
wgDone(n) == n - 1

\* Variant: a goroutine whose fetch failed fetches again.
afterFetch_retry(err) == IF err # "nil" THEN "ready" ELSE "done"

\* A goroutine makes one fetch, assigns its two variables and returns.
afterFetch(err) == "done"

\* A goroutine: its state, its parameter d, the loop iteration that started
\* it, the response its fetch received and the two variables it assigns.
idleWeb == [st |-> "none", d |-> zeroMapDocument, cand |-> 0,
            resp |-> TransportFailure, docs |-> <<>>, err |-> "nil"]
\* fetchMapDocuments before it is called.
idleFetch == [st |-> "none", resp |-> TransportFailure, err |-> "nil"]

idleImg == [st |-> "none", d |-> zeroMapDocument, cand |-> 0,
            resp |-> TransportFailure, doc |-> zeroImageDocument, err |-> "nil"]

Terminal == {"rejected", "failed", "completed"}

NoEarlier == [progress |-> <<>>, result |-> NoResult]

\* searchTool is entered with any value of the package variable kakaoAPIKey
\* (its own guard covers the empty one), any query and a live context.  The
\* type assertion on req.GetSession() always succeeds for a server request.
\* The request, and searchTool before it has run.
\* No second call.
NoOther == [pc |-> "none"]

Fresh ==
    /\ query \in Queries
    /\ progressToken \in Tokens
    /\ ctxDone = FALSE
    /\ cancelAt = 0
    /\ mapFetch = idleFetch
    /\ mapDocuments = <<>>
    /\ idx = 0
    /\ wg = 0
    /\ web = idleWeb
    /\ img = idleImg
    /\ progress = <<>>
    /\ result = NoResult
    /\ calls = {}
    /\ invocation = 1
    /\ earlier = NoEarlier
    /\ other = NoOther
    /\ running = 1
    /\ lostFrom = 0

\* searchTool is called with kakaoAPIKey holding either value.
Init ==
    /\ kakaoAPIKey \in APIKeys
    /\ envKey = kakaoAPIKey
    /\ mainPc = "notRun"
    /\ gateway = Arbitrary
    /\ pc = "start"
    /\ Fresh

\* ctx is cancelled by the caller while searchTool is running.
Cancel ==
    /\ pc \notin Terminal
    /\ ~ctxDone
    /\ ctxDone' = TRUE
    /\ cancelAt' = IF pc = "wait" THEN idx ELSE 0
    /\ UNCHANGED <<outer, gateway, kakaoAPIKey, query, progressToken, mapFetch, pc, mapDocuments, idx, wg,
                   web, img, progress, result, calls>>

RejectCredential ==
    /\ pc = "start"
    /\ credentialMissing(kakaoAPIKey)
    /\ result' = ToolResult(TRUE, credentialErrorText)
    /\ pc' = "rejected"
    /\ UNCHANGED <<outer, gateway, kakaoAPIKey, query, progressToken, mapFetch, ctxDone, cancelAt, mapDocuments,
                   idx, wg, web, img, progress, calls>>

RejectQuery ==
    /\ pc = "start"
    /\ ~credentialMissing(kakaoAPIKey)
    /\ queryEmpty(query)
    /\ result' = ToolResult(TRUE, queryErrorText)
    /\ pc' = "rejected"
    /\ UNCHANGED <<outer, gateway, kakaoAPIKey, query, progressToken, mapFetch, ctxDone, cancelAt, mapDocuments,
                   idx, wg, web, img, progress, calls>>

\* NotifyProgress with systemPrompt; its error is discarded.
Announce ==
    /\ pc = "start"
    /\ ~credentialMissing(kakaoAPIKey)
    /\ ~queryEmpty(query)
    /\ progress' = progress \o announceNotifications(systemPrompt)
    /\ \E notifyErr \in NotifyResults(lostFrom, Len(progress) + 1) :
          IF afterNotify(notifyErr) = "continue"
          THEN pc' = "fetchMap" /\ UNCHANGED result
          ELSE pc' = "failed" /\ result' = GoError(notifyErr)
    /\ UNCHANGED <<outer, gateway, kakaoAPIKey, query, progressToken, mapFetch, ctxDone,
                   cancelAt, mapDocuments, idx, wg, web, img, calls>>

IssueMap ==
    /\ pc = "fetchMap"
    /\ calls' = calls \cup {Call(calls, "map", query, 0, ctxDone)}
    /\ pc' = "awaitMap"
    /\ UNCHANGED <<outer, gateway, kakaoAPIKey, query, progressToken, mapFetch, ctxDone, cancelAt, mapDocuments,
                   idx, wg, web, img, progress, result>>

SettleMap ==
    /\ pc = "awaitMap"
    /\ \E resp \in Answers(MapLists, gateway, Pending(calls, "map", 0)) :
          LET r == fetchMapDocuments(resp)
          IN  /\ gateway' = Answered(gateway, Pending(calls, "map", 0), resp)
              /\ calls' = Settled(calls, Pending(calls, "map", 0), r.err)
              /\ mapFetch' = [st |-> "done", resp |-> resp, err |-> r.err]
              /\ IF mapFetchFatal(r.err)
                 THEN /\ result' = GoError("failed to fetch map documents")
                      /\ pc' = "failed"
                      /\ UNCHANGED <<mapDocuments, idx>>
                 ELSE /\ mapDocuments' = r.docs
                      /\ idx' = 1
                      /\ pc' = "loop"
                      /\ UNCHANGED result
    /\ UNCHANGED <<outer, kakaoAPIKey, query, progressToken, ctxDone, cancelAt, wg, web, img,
                   progress>>

\* Loop head with a document left: fresh slots, wg.Add(2), two go statements.
StartCandidate ==
    /\ pc = "loop"
    /\ idx <= Len(mapDocuments)
    /\ wg' = wgAdd
    /\ LET doc == rangeElem(mapDocuments, idx)
       IN  /\ web' = [idleWeb EXCEPT !.st = "ready", !.d = doc, !.cand = idx]
           /\ img' = [idleImg EXCEPT !.st = "ready", !.d = doc, !.cand = idx]
    /\ pc' = "wait"
    /\ UNCHANGED <<outer, gateway, kakaoAPIKey, query, progressToken, mapFetch, ctxDone, cancelAt, mapDocuments,
                   idx, progress, result, calls>>

IssueWeb ==
    /\ web.st = "ready"
    /\ calls' = calls \cup {Call(calls, "web", web.d.PlaceName, web.cand, ctxDone)}
    /\ web' = [web EXCEPT !.st = "inflight"]
    /\ UNCHANGED <<outer, gateway, kakaoAPIKey, query, progressToken, mapFetch, ctxDone, cancelAt, pc, mapDocuments,
                   idx, wg, img, progress, result>>

SettleWeb ==
    /\ web.st = "inflight"
    /\ \E resp \in Answers(WebLists, gateway, Pending(calls, "web", web.cand)) :
          LET r == fetchWebDocuments(resp)
          IN  /\ gateway' = Answered(gateway, Pending(calls, "web", web.cand), resp)
              /\ web' = [web EXCEPT !.st = afterFetch(r.err), !.resp = resp,
                                     !.docs = r.docs,
                                     !.err = IF errSlot("web") = "webErr" THEN r.err ELSE @]
              /\ img' = [img EXCEPT !.err = IF errSlot("web") = "imgErr" THEN r.err ELSE @]
              /\ calls' = Settled(calls, Pending(calls, "web", web.cand), r.err)
    /\ wg' = IF web'.st = "done" THEN wgDone(wg) ELSE wg
    /\ UNCHANGED <<outer, kakaoAPIKey, query, progressToken, mapFetch, ctxDone, cancelAt, pc, mapDocuments,
                   idx, progress, result>>

IssueImg ==
    /\ img.st = "ready"
    /\ calls' = calls \cup {Call(calls, "image", img.d.PlaceName, img.cand, ctxDone)}
    /\ img' = [img EXCEPT !.st = "inflight"]
    /\ UNCHANGED <<outer, gateway, kakaoAPIKey, query, progressToken, mapFetch, ctxDone, cancelAt, pc, mapDocuments,
                   idx, wg, web, progress, result>>

SettleImg ==
    /\ img.st = "inflight"
    /\ \E resp \in Answers(ImgLists, gateway, Pending(calls, "image", img.cand)) :
          LET r == fetchImageDocument(resp)
          IN  /\ gateway' = Answered(gateway, Pending(calls, "image", img.cand), resp)
              /\ img' = [img EXCEPT !.st = afterFetch(r.err), !.resp = resp,
                                     !.doc = r.doc,
                                     !.err = IF errSlot("image") = "imgErr" THEN r.err ELSE @]
              /\ web' = [web EXCEPT !.err = IF errSlot("image") = "webErr" THEN r.err ELSE @]
              /\ calls' = Settled(calls, Pending(calls, "image", img.cand), r.err)
    /\ wg' = IF img'.st = "done" THEN wgDone(wg) ELSE wg
    /\ UNCHANGED <<outer, kakaoAPIKey, query, progressToken, mapFetch, ctxDone, cancelAt, pc, mapDocuments,
                   idx, progress, result>>

\* wg.Wait() returns and one of the two fetches failed: continue.  The
\* variables declared in the loop body end with the iteration.
DropCandidate ==
    /\ pc = "wait"
    /\ waitDone(wg)
    /\ enrichFailed(web.err, img.err)
    /\ idx' = idx + 1
    /\ web' = idleWeb
    /\ img' = idleImg
    /\ pc' = "loop"
    /\ UNCHANGED <<outer, gateway, kakaoAPIKey, query, progressToken, mapFetch, ctxDone, cancelAt, mapDocuments,
                   wg, progress, result, calls>>

\* wg.Wait() returns and both fetches succeeded: build, marshal, notify.
EmitCandidate ==
    /\ pc = "wait"
    /\ waitDone(wg)
    /\ ~enrichFailed(web.err, img.err)
    /\ LET m == jsonMarshal(KakaoLocalSearchResult(rangeElem(mapDocuments, idx),
                                                   web.docs, img.doc))
       IN  IF m.err # "nil"
           THEN UNCHANGED <<progress, result>> /\ pc' = "loop"
           ELSE /\ progress' = progress \o resultNotifications(m.bytes, idx)
                /\ \E notifyErr \in NotifyResults(lostFrom, Len(progress) + 1) :
                      IF afterNotify(notifyErr) = "continue"
                      THEN pc' = "loop" /\ UNCHANGED result
                      ELSE pc' = "failed" /\ result' = GoError(notifyErr)
    /\ idx' = idx + 1
    /\ web' = idleWeb
    /\ img' = idleImg
    /\ UNCHANGED <<outer, gateway, kakaoAPIKey, query, progressToken, mapFetch, ctxDone,
                   cancelAt, mapDocuments, wg, calls>>

Complete ==
    /\ pc = "loop"
    /\ idx > Len(mapDocuments)
    /\ result' = [ToolResult(completionIsError(Len(progress) - 1), completeText)
                       EXCEPT !.Content = completionContent(
                                  [j \in 1..(Len(progress) - 1) |-> progress[j + 1].message])]
    /\ pc' = "completed"
    /\ UNCHANGED <<outer, gateway, kakaoAPIKey, query, progressToken, mapFetch, ctxDone, cancelAt, mapDocuments,
                   idx, wg, web, img, progress, calls>>

\* searchTool past its credential guard.
Validated ==
    \/ RejectQuery
    \/ Announce
    \/ IssueMap
    \/ SettleMap
    \/ StartCandidate
    \/ IssueWeb
    \/ SettleWeb
    \/ IssueImg
    \/ SettleImg
    \/ DropCandidate
    \/ EmitCandidate
    \/ Complete

Step == RejectCredential \/ Validated

Next == Step \/ Cancel

Spec == Init /\ [][Next]_vars

\* Every upstream call settles (httpClient has a timeout) and the Go
\* scheduler runs every runnable goroutine; cancellation need not happen.
FairSpec == Init /\ [][Next]_vars /\ WF_vars(Step)

----------------------------------------------------------------------------
(* Two invocations against a deterministic Kakao API *)

\* searchTool has returned and is called again with the same request: the
\* same kakaoAPIKey, query and progress token, and locals of its own.
SecondInvocation ==
    /\ gateway.fixed
    /\ invocation = 1
    /\ pc \in Terminal
    /\ invocation' = 2
    /\ earlier' = [progress |-> progress, result |-> result]
    /\ pc' = "start"
    /\ mapFetch' = idleFetch
    /\ mapDocuments' = <<>>
    /\ idx' = 0
    /\ wg' = 0
    /\ web' = idleWeb
    /\ img' = idleImg
    /\ progress' = <<>>
    /\ result' = NoResult
    /\ calls' = {}
    /\ UNCHANGED <<envKey, mainPc, gateway, other, running, lostFrom, kakaoAPIKey, query,
                   progressToken, ctxDone, cancelAt>>

DetInit ==
    /\ kakaoAPIKey \in APIKeys
    /\ envKey = kakaoAPIKey
    /\ mainPc = "notRun"
    /\ gateway = Deterministic
    /\ pc = "start"
    /\ Fresh

\* Neither invocation is cancelled.
DetNext == Step \/ SecondInvocation

DetSpec == DetInit /\ [][DetNext]_vars

----------------------------------------------------------------------------
(* A session that is lost while searchTool runs *)

\* The connection of the session goes away: from now on NotifyProgress
\* returns an error.
Disconnect ==
    /\ lostFrom = 0
    /\ pc \notin Terminal
    /\ lostFrom' = Len(progress) + 1
    /\ UNCHANGED <<envKey, mainPc, gateway, invocation, earlier, other, running, kakaoAPIKey,
                   query, progressToken, ctxDone, cancelAt, pc, mapFetch, mapDocuments, idx, wg,
                   web, img, progress, result, calls>>

\* The caller does not cancel.
DeliveryNext == Step \/ Disconnect

DeliverySpec == Init /\ [][DeliveryNext]_vars

----------------------------------------------------------------------------
(* main *)

\* Variant: main does not look at the key it read.
startupKeyMissing_never(key) == FALSE

startupKeyMissing(key) == key = ""

\* What main does not touch: the request and the state of searchTool.
inner == <<query, progressToken, ctxDone, cancelAt, mapFetch, mapDocuments, idx, wg,
           web, img, progress, result, calls, gateway, invocation, earlier, other, running,
           lostFrom>>

\* kakaoAPIKey = os.Getenv("KAKAO_API_KEY")
LoadKey ==
    /\ mainPc = "start"
    /\ kakaoAPIKey' = envKey
    /\ mainPc' = "loaded"
    /\ UNCHANGED <<envKey, pc, inner>>

\* The key is empty: log and os.Exit(1).
ExitNoKey ==
    /\ mainPc = "loaded"
    /\ startupKeyMissing(kakaoAPIKey)
    /\ mainPc' = "exited"
    /\ UNCHANGED <<envKey, kakaoAPIKey, pc, inner>>

\* mcp.NewServer, mcp.AddTool and the streamable HTTP handler.
Register ==
    /\ mainPc = "loaded"
    /\ ~startupKeyMissing(kakaoAPIKey)
    /\ mainPc' = "registered"
    /\ UNCHANGED <<envKey, kakaoAPIKey, pc, inner>>

\* http.ListenAndServe: it serves, or returns an error and main exits.
Listen ==
    /\ mainPc = "registered"
    /\ \E listenErr \in {"nil", "listen failed"} :
          mainPc' = IF listenErr = "nil" THEN "listening" ELSE "exited"
    /\ UNCHANGED <<envKey, kakaoAPIKey, pc, inner>>

\* A tool request arrives and the server calls searchTool.
Serve ==
    /\ mainPc = "listening"
    /\ pc = "idle"
    /\ pc' = "start"
    /\ UNCHANGED <<envKey, mainPc, kakaoAPIKey, inner>>

MainStep == LoadKey \/ ExitNoKey \/ Register \/ Listen

\* The process starts: the package variable holds its zero value and no
\* request has been received.
MainInit ==
    /\ envKey \in APIKeys
    /\ kakaoAPIKey = ""
    /\ mainPc = "start"
    /\ gateway = Arbitrary
    /\ pc = "idle"
    /\ Fresh

\* searchTool runs only with the key main let through, so its credential
\* guard is never taken here.
MainNext == MainStep \/ Serve \/ Validated \/ Cancel

\* main runs to its exit or to ListenAndServe.
MainSpec == MainInit /\ [][MainNext]_vars /\ WF_vars(MainStep)

----------------------------------------------------------------------------
(* Two calls of searchTool running at the same time *)

\* The token of the second request.
OtherToken == "tok2"

\* What a call of searchTool holds in its own frame: its arguments, its
\* position, its local variables and goroutines, and (as observed from
\* outside) the notifications, the return value and the requests that are
\* its own.
Locals ==
    [query |-> query, progressToken |-> progressToken, ctxDone |-> ctxDone,
     cancelAt |-> cancelAt, pc |-> pc, mapFetch |-> mapFetch,
     mapDocuments |-> mapDocuments, idx |-> idx, wg |-> wg, web |-> web, img |-> img,
     progress |-> progress, result |-> result, calls |-> calls]

\* Variant: the WaitGroup is a package variable, one for all calls.
Resume_sharedCounter(parked, cur) == [parked EXCEPT !.wg = cur.wg]

\* A call that takes a step again finds its frame as it left it: all of
\* searchTool's variables are declared in the function or in its loop body.
Resume(parked, cur) == parked

\* The scheduler moves from one call to the other.
Switch ==
    /\ mainPc = "listening"
    /\ other # NoOther
    /\ running' = 3 - running
    /\ other' = Locals
    /\ LET frame == Resume(other, Locals)
       IN  /\ query' = frame.query
           /\ progressToken' = frame.progressToken
           /\ ctxDone' = frame.ctxDone
           /\ cancelAt' = frame.cancelAt
           /\ pc' = frame.pc
           /\ mapFetch' = frame.mapFetch
           /\ mapDocuments' = frame.mapDocuments
           /\ idx' = frame.idx
           /\ wg' = frame.wg
           /\ web' = frame.web
           /\ img' = frame.img
           /\ progress' = frame.progress
           /\ result' = frame.result
           /\ calls' = frame.calls
    /\ UNCHANGED <<envKey, mainPc, gateway, invocation, earlier, lostFrom, kakaoAPIKey>>

\* Status 200 with the documents d.
Found(d) == [transportOk |-> TRUE, status |-> StatusOK, body |-> Body(d)]

\* What the Kakao API holds about the two places: place A has a comment
\* and two images, the comment search for place B fails.  Its answer to a
\* place search is open.
IsoGateway ==
    [fixed |-> TRUE,
     answers |-> {[op |-> "web", query |-> <<"A">>, resp |-> Found(<<WebDocument>>)],
                  [op |-> "web", query |-> <<"B">>,
                   resp |-> [transportOk |-> TRUE, status |-> 500, body |-> Malformed]],
                  [op |-> "image", query |-> <<"A">>,
                   resp |-> Found(<<ImageDocument("img1"), ImageDocument("img2")>>)],
                  [op |-> "image", query |-> <<"B">>, resp |-> Found(<<>>)]}]

\* The process starts; two requests, each with its own query and token,
\* will arrive once the server listens.  The Kakao API answers as a function
\* of the request.
IsoInit ==
    /\ envKey \in APIKeys
    /\ kakaoAPIKey = ""
    /\ mainPc = "start"
    /\ gateway = IsoGateway
    /\ pc = "idle"
    /\ query \in Queries
    /\ progressToken \in Tokens
    /\ ctxDone = FALSE
    /\ cancelAt = 0
    /\ mapFetch = idleFetch
    /\ mapDocuments = <<>>
    /\ idx = 0
    /\ wg = 0
    /\ web = idleWeb
    /\ img = idleImg
    /\ progress = <<>>
    /\ result = NoResult
    /\ calls = {}
    /\ invocation = 1
    /\ earlier = NoEarlier
    /\ lostFrom = 0
    /\ running = 1
    /\ \E q \in Queries :
          other = [query |-> q, progressToken |-> OtherToken, ctxDone |-> FALSE,
                   cancelAt |-> 0, pc |-> "idle", mapFetch |-> idleFetch,
                   mapDocuments |-> <<>>, idx |-> 0, wg |-> 0, web |-> idleWeb,
                   img |-> idleImg, progress |-> <<>>, result |-> NoResult, calls |-> {}]

\* Neither call is cancelled.
IsoNext == MainStep \/ Serve \/ Validated \/ Switch

IsoSpec == IsoInit /\ [][IsoNext]_vars

----------------------------------------------------------------------------
(* Observations used by the properties *)

Candidates == 1..Len(mapDocuments)

CallsOf(k) == {c \in calls : c.cand = k}

InFlight == {c \in calls : c.outcome = "inflight"}

\* One of the fetches made for the k-th map document returned an error.
FetchFailed(k) == \E c \in CallsOf(k) : c.outcome = "err"

\* Both fetches made for the k-th map document returned without error.
FetchesOk(k) ==
    /\ \E c \in CallsOf(k) : c.op = "web" /\ c.outcome = "ok"
    /\ \E c \in CallsOf(k) : c.op = "image" /\ c.outcome = "ok"

\* The loop is past the k-th map document.
Processed(k) == k \in Candidates /\ k < idx

PayloadsOf(k) == {j \in DOMAIN progress : progress[j].cand = k}

Payloads == SelectSeq(progress, LAMBDA n : n.cand > 0)

Announcements == SelectSeq(progress, LAMBDA n : n.cand = 0)

\* The map document a result message was built from, read back from the
\* encoded fields.
PlaceOf(msg) ==
    [PlaceName |-> msg[1][2], AddressName |-> msg[2][2], CategoryName |-> msg[3][2],
     PlaceURL |-> msg[4][2], Phone |-> msg[5][2]]

PayloadPlaces == [j \in DOMAIN Payloads |-> PlaceOf(Payloads[j].message)]

RECURSIVE IsSubseq(_, _)
IsSubseq(s, t) ==
    IF s = <<>> THEN TRUE
    ELSE IF t = <<>> THEN FALSE
    ELSE IF Head(s) = Head(t) THEN IsSubseq(Tail(s), Tail(t))
    ELSE IsSubseq(s, Tail(t))

RECURSIVE TrimLeft(_)
TrimLeft(q) == IF q # <<>> /\ Head(q) = " " THEN TrimLeft(Tail(q)) ELSE q

RECURSIVE TrimRight(_)
TrimRight(q) ==
    IF q # <<>> /\ q[Len(q)] = " " THEN TrimRight(SubSeq(q, 1, Len(q) - 1)) ELSE q

TrimSpace(q) == TrimRight(TrimLeft(q))

Completion == ToolResult(FALSE, completeText)

MapFetched == pc \in {"loop", "wait", "completed"}

MapFailed == \E c \in calls : c.op = "map" /\ c.outcome = "err"

----------------------------------------------------------------------------
(* Properties *)

\* C1: a map document one of whose two fetches failed never gets a result
\* notification, and a map document the loop is past whose two fetches both
\* succeeded has exactly one, built from that document, wherever the failing
\* documents stand in the list.
C1_AllOrNothing ==
    \A k \in Candidates :
        /\ FetchFailed(k) => PayloadsOf(k) = {}
        /\ (Processed(k) /\ FetchesOk(k)) => Cardinality(PayloadsOf(k)) = 1
        /\ \A j \in PayloadsOf(k) : PlaceOf(progress[j].message) = mapDocuments[k]

C1_Witness ==
    /\ pc = "completed"
    /\ Len(mapDocuments) = 2
    /\ FetchFailed(1) /\ PayloadsOf(1) = {}
    /\ FetchesOk(2) /\ Cardinality(PayloadsOf(2)) = 1

\* C2: the places of the result notifications, in the order they were handed
\* over, form a subsequence of mapDocuments, and the loop iterations that
\* handed them over are strictly increasing.
C2_OrderedDelivery ==
    /\ IsSubseq(PayloadPlaces, mapDocuments)
    /\ \A i, j \in DOMAIN Payloads : i < j => Payloads[i].cand < Payloads[j].cand

C2_Witness ==
    /\ pc = "completed"
    /\ Len(Payloads) = 2
    /\ PayloadPlaces[1] # PayloadPlaces[2]

\* C3: once place search has returned N documents, there is exactly one
\* announcement, at most one result notification per document, and with the
\* final completion result at most N+2 messages in all.
C3_MessageBound ==
    MapFetched =>
        /\ Len(Announcements) = 1
        /\ progress[1].message = systemPrompt
        /\ \A k \in Candidates : Cardinality(PayloadsOf(k)) <= 1
        /\ Len(Payloads) <= Len(mapDocuments)
        /\ Len(progress) + (IF result = Completion THEN 1 ELSE 0) <= Len(mapDocuments) + 2
        /\ pc = "completed" => result = Completion

C3_Witness ==
    /\ pc = "completed"
    /\ Len(mapDocuments) = 2
    /\ Len(progress) = 3
    /\ result = Completion

\* C4 (as claimed): a query that is empty after trimming blanks is rejected
\* with an error result before any notification or upstream request.
C4_TrimmedEmptyRejected ==
    (kakaoAPIKey # "" /\ TrimSpace(query) = <<>>) =>
        /\ pc \in {"start", "rejected"}
        /\ calls = {}
        /\ pc = "rejected" => result = ToolResult(TRUE, queryErrorText)

\* C5: with no credential configured the call is rejected with an error
\* result naming KAKAO_API_KEY, and no upstream request is made.
C5_MissingCredentialRejected ==
    kakaoAPIKey = "" =>
        /\ pc \in {"start", "rejected"}
        /\ calls = {}
        /\ pc = "rejected" =>
              /\ result.kind = "result"
              /\ result.IsError
              /\ result.Content = <<credentialErrorText>>

C5_Witness == kakaoAPIKey = "" /\ pc = "rejected" /\ query # <<>>

\* C6: when place search fails the call ends in "failed" with a Go error,
\* no web or image request is made, nothing but the announcement has been
\* notified and there is no completion result.
C6_MapFailureFatal ==
    MapFailed =>
        /\ pc = "failed"
        /\ result.kind = "error"
        /\ \A c \in calls : c.op = "map"
        /\ Cardinality(calls) = 1
        /\ Payloads = <<>>

C6_Witness == pc = "failed" /\ \E c \in calls : c.outcome = "err" /\ ~c.doomed

\* C7: when place search succeeds the call ends, and only ends, with the
\* completion result, which is not an error, also when no document was
\* enriched and when there was no document.
C7_Completes ==
    /\ [](MapFetched /\ pc \in Terminal => pc = "completed" /\ result = Completion)
    /\ (MapFetched ~> (pc = "completed" /\ result = Completion))

C7_Witness ==
    /\ pc = "completed"
    /\ Len(mapDocuments) = 2
    /\ FetchFailed(1) /\ FetchFailed(2)
    /\ Payloads = <<>>
    /\ result = Completion

\* C8 (as claimed): when ctx is cancelled while a map document is being
\* enriched, that document gets no result notification and the completion
\* result is not produced.
C8_CancelStops ==
    cancelAt > 0 =>
        /\ PayloadsOf(cancelAt) = {}
        /\ pc # "completed"

\* C9: at most two upstream requests are in flight, and a request for a
\* later map document exists only when every request for an earlier one (and
\* the place search) has settled and the earlier document's result, if it
\* has one, has been notified.
C9_SequentialCandidates ==
    /\ Cardinality(InFlight) <= 2
    /\ \A c1, c2 \in calls :
          c1.cand < c2.cand =>
              /\ c1.outcome # "inflight"
              /\ Cardinality(CallsOf(c1.cand)) = (IF c1.cand = 0 THEN 1 ELSE 2)
              /\ (c1.cand > 0 /\ FetchesOk(c1.cand)) => PayloadsOf(c1.cand) # {}

C9_Witness ==
    /\ idx = 2
    /\ web.st = "inflight" /\ img.st = "inflight"
    /\ Cardinality(InFlight) = 2
    /\ FetchesOk(1)

\* C10: the loop leaves its wait only when both goroutines of the iteration
\* are done and both their requests have settled; in particular a result is
\* notified, or the document dropped, only then.
C10_Join ==
    [][(pc = "wait" /\ (pc' # "wait" \/ idx' # idx \/ progress' # progress)) =>
          /\ web.st = "done" /\ img.st = "done"
          /\ \A c \in CallsOf(idx) : c.outcome # "inflight"
          /\ Cardinality(CallsOf(idx)) = 2]_vars

\* The web fetch has already failed and the loop still waits for the image.
C10_Witness ==
    /\ pc = "wait"
    /\ web.st = "done" /\ web.err # "nil"
    /\ img.st = "inflight"

\* C11: once an invocation is past validation the fixed prompt has been
\* notified exactly once, as the first progress notification and with the
\* caller's progress token; no request to the Kakao API is made before it.
C11_AnnounceFirst ==
    /\ Len(Announcements) <= 1
    /\ (pc \notin {"start", "rejected"} \/ calls # {}) =>
          /\ Len(progress) >= 1
          /\ Len(Announcements) = 1
          /\ progress[1].cand = 0
          /\ progress[1].message = systemPrompt
          /\ progress[1].token = progressToken

\* The prompt is out and the map request has just been made.
C11_Witness ==
    /\ pc = "awaitMap"
    /\ Len(progress) = 1 /\ progress[1].message = systemPrompt
    /\ \E c \in calls : c.op = "map" /\ c.outcome = "inflight"

\* The encodings one map document can be notified as: the document's own
\* fields with any decoded comments and any image document.
EncodingsOf(doc) ==
    {jsonMarshal(KakaoLocalSearchResult(doc, l, i)).bytes :
        l \in WebLists,
        i \in {zeroImageDocument} \cup UNION {{l2[j] : j \in DOMAIN l2} : l2 \in ImgLists}}

ProgressShape ==
    \A j \in DOMAIN progress :
        /\ progress[j].token = progressToken
        /\ (j = 1) = (progress[j].cand = 0)
        /\ j = 1 => progress[j].message = systemPrompt
        /\ j > 1 =>
              /\ progress[j].cand \in Candidates
              /\ progress[j].message \in EncodingsOf(mapDocuments[progress[j].cand])

\* C12: the first progress notification is the fixed prompt, every later one
\* is the encoding of one enriched map document, all of them carry the
\* caller's progress token, and once the call has returned its result no
\* further notification is made.
C12_StreamShape ==
    /\ []ProgressShape
    /\ [][(pc \in Terminal \/ result # NoResult) => progress' = progress]_vars
    /\ [](pc = "completed" => result = Completion)

\* A completed call that notified the prompt and then two results.
C12_Witness ==
    /\ pc = "completed"
    /\ result = Completion
    /\ Len(progress) = 3
    /\ progress[2].cand = 1 /\ progress[3].cand = 2

EarlierPayloads == SelectSeq(earlier.progress, LAMBDA n : n.cand > 0)

Messages(s) == [j \in DOMAIN s |-> s[j].message]

IsPrefix(s, t) == Len(s) <= Len(t) /\ s = SubSeq(t, 1, Len(s))

\* C13: against a Kakao API that answers each request as a function of its
\* operation and query, a second invocation with the same request notifies
\* the same result messages in the same order as the first, and returns the
\* same result, however the two fetches of each map document interleave in
\* either invocation.
C13_Deterministic ==
    invocation = 2 =>
        /\ IsPrefix(Messages(Payloads), Messages(EarlierPayloads))
        /\ pc \in Terminal =>
              /\ Messages(Payloads) = Messages(EarlierPayloads)
              /\ Len(progress) = Len(earlier.progress)
              /\ result = earlier.result

\* A second invocation has completed after notifying a result for one map
\* document and dropping another.
C13_Witness ==
    /\ invocation = 2
    /\ pc = "completed"
    /\ Len(mapDocuments) = 2
    /\ Len(Payloads) = 1

C15_NoRetry ==
    /\ \A c \in calls : c.n = 1
    /\ Cardinality({c \in calls : c.op = "map"}) <= 1
    /\ \A c \in calls : c.op = "map" <=> c.cand = 0
    /\ \A c \in calls : c.cand > 0 => c.cand \in Candidates /\ c.cand <= idx
    /\ \A k \in Candidates :
          /\ Cardinality({c \in CallsOf(k) : c.op = "web"}) <= 1
          /\ Cardinality({c \in CallsOf(k) : c.op = "image"}) <= 1
    /\ Cardinality(calls) <= 1 + 2 * Len(mapDocuments)

\* Both fetches of a document failed, the loop went on, and each of the
\* two had been requested once.
C15_Witness ==
    \E k \in Candidates :
        /\ Processed(k)
        /\ \A c \in CallsOf(k) : c.outcome = "err" /\ c.n = 1
        /\ Cardinality(CallsOf(k)) = 2

\* The image search answered 200 with a body that decodes.
ImageSearchOk == img.resp.transportOk /\ img.resp.status = StatusOK /\ img.resp.body.wellFormed

ImageFound == img.resp.body.documents

\* The image_url field of a result message.
ImageURLOf(msg) == msg[6][2]

\* C16: an image search that succeeds with no document returns the empty
\* image document and no error, and one that succeeds with documents returns
\* the first of them; when the web search succeeded too, the map document
\* is then notified, with an empty image_url in the first case and the
\* first document's URL in the second.
C16_AbsentImage ==
    /\ [](img.st = "done" /\ ImageSearchOk =>
              /\ img.err = "nil"
              /\ ImageFound = <<>> => img.doc = zeroImageDocument
              /\ ImageFound # <<>> => img.doc = ImageFound[1])
    /\ [][(/\ pc = "wait" /\ idx' = idx + 1
            /\ img.st = "done" /\ ImageSearchOk
            /\ web.st = "done" /\ web.err = "nil") =>
              /\ progress' # progress
              /\ SubSeq(progress', 1, Len(progress)) = progress
              /\ progress'[Len(progress')].cand = idx
              /\ ImageURLOf(progress'[Len(progress')].message) =
                    IF ImageFound = <<>> THEN "" ELSE ImageFound[1].ImageURL]_vars

\* A map document was notified with comments and an empty image_url.
C16_Witness ==
    \E j \in DOMAIN progress :
        /\ progress[j].cand > 0
        /\ ImageURLOf(progress[j].message) = ""
        /\ progress[j].message[7][2] # <<>>

ToolRegistered == mainPc \in {"registered", "listening"}

Serving == mainPc = "listening"

\* searchTool has been called.
RequestServed == pc # "idle"

\* C17: a process started without KAKAO_API_KEY exits, and before it does
\* the tool is not registered, the server does not listen and searchTool is
\* never called: nothing is notified, returned or requested.
C17_FailFast ==
    /\ [](envKey = "" =>
              /\ mainPc \in {"start", "loaded", "exited"}
              /\ ~ToolRegistered /\ ~Serving /\ ~RequestServed
              /\ progress = <<>> /\ result = NoResult /\ calls = {})
    /\ [][(envKey = "" /\ mainPc = "exited") => mainPc' = "exited"]_vars
    /\ (envKey = "" /\ mainPc = "start") ~> (mainPc = "exited" /\ ~RequestServed)

\* The process found no key and has exited.
C17_Witness ==
    /\ envKey = ""
    /\ kakaoAPIKey = ""
    /\ mainPc = "exited"
    /\ pc = "idle"

\* C18: a call that fails validation (no credential, or an empty query)
\* ends rejected having returned one error result, without any progress
\* notification and without any request.
C18_RejectedSilent ==
    /\ (kakaoAPIKey = "" \/ query = <<>>) =>
          /\ pc \in {"start", "rejected"}
          /\ progress = <<>>
          /\ calls = {}
    /\ pc = "rejected" =>
          /\ kakaoAPIKey = "" \/ query = <<>>
          /\ result.kind = "result" /\ result.IsError
          /\ Len(result.Content) = 1
    /\ pc = "start" => result = NoResult

\* An empty query under a configured credential has been rejected.
C18_Witness ==
    /\ pc = "rejected"
    /\ kakaoAPIKey # "" /\ query = <<>>
    /\ result = ToolResult(TRUE, queryErrorText)
    /\ progress = <<>>

Decodes(resp) == resp.body.wellFormed

\* A fetch that received resp returned err when, and only when, it must.
ErrorIffNot200(resp, err) ==
    (err # "nil") = (~resp.transportOk \/ resp.status # StatusOK \/ ~Decodes(resp))

ErrorIffNot2xx(resp, err) ==
    (err # "nil") = (~resp.transportOk \/ resp.status \notin 200..299 \/ ~Decodes(resp))

\* C19 (as amended): a fetch returns an error exactly when the transport
\* fails, the status is not 200, or the body does not decode; a fetch that
\* returns an error returns no document with it, and one that returns no
\* error returns the documents of the body (the image search the first of
\* them, if any).  An error of the place search ends the call with that
\* error.
C19_GatewayErrors ==
    /\ mapFetch.st = "done" =>
          /\ ErrorIffNot200(mapFetch.resp, mapFetch.err)
          /\ mapFetch.err # "nil" =>
                mapDocuments = <<>> /\ pc = "failed" /\ result.kind = "error"
          /\ mapFetch.err = "nil" => mapDocuments = mapFetch.resp.body.documents
    /\ web.st = "done" =>
          /\ ErrorIffNot200(web.resp, web.err)
          /\ web.err # "nil" => web.docs = <<>>
          /\ web.err = "nil" => web.docs = web.resp.body.documents
    /\ img.st = "done" =>
          /\ ErrorIffNot200(img.resp, img.err)
          /\ img.err # "nil" => img.doc = zeroImageDocument
          /\ img.err = "nil" =>
                <<img.doc>> = IF img.resp.body.documents = <<>>
                              THEN <<zeroImageDocument>>
                              ELSE SubSeq(img.resp.body.documents, 1, 1)

\* C19 as stated: a fetch returns an error exactly when the transport fails,
\* the status is outside 200..299, or the body is malformed.
C19_ErrorIffNot2xx ==
    /\ mapFetch.st = "done" => ErrorIffNot2xx(mapFetch.resp, mapFetch.err)
    /\ web.st = "done" => ErrorIffNot2xx(web.resp, web.err)
    /\ img.st = "done" => ErrorIffNot2xx(img.resp, img.err)

\* The web search was answered 204 with a body that decodes, and
\* fetchWebDocuments returned an error.
C19_Witness ==
    /\ web.st = "done"
    /\ web.resp.transportOk /\ web.resp.status = 204 /\ Decodes(web.resp)
    /\ web.err # "nil"

\* The payload of candidate k, given the answers to its two requests.
PayloadFor(k, webResp, imgResp) ==
    << <<"place_name", mapDocuments[k].PlaceName>>,
       <<"address_name", mapDocuments[k].AddressName>>,
       <<"category_name", mapDocuments[k].CategoryName>>,
       <<"place_url", mapDocuments[k].PlaceURL>>,
       <<"phone", mapDocuments[k].Phone>>,
       <<"image_url", IF imgResp.body.documents = <<>> THEN ""
                      ELSE imgResp.body.documents[1].ImageURL>>,
       <<"comments", webResp.body.documents>> >>

\* The requests of one operation made in iteration k.
RequestsOf(op, k) == {c \in CallsOf(k) : c.op = op}

\* The goroutines at work are those of candidate idx: they were started for
\* document idx, their requests ask for its name, and a finished one holds
\* what its own answer decoded to.
SlotsOfCurrent ==
    /\ web.st # "none" => web.cand = idx /\ web.d = mapDocuments[idx]
    /\ img.st # "none" => img.cand = idx /\ img.d = mapDocuments[idx]
    /\ web.st \in {"inflight", "done"} =>
          \E c \in RequestsOf("web", idx) : c.query = mapDocuments[idx].PlaceName
    /\ img.st \in {"inflight", "done"} =>
          \E c \in RequestsOf("image", idx) : c.query = mapDocuments[idx].PlaceName
    /\ web.st = "done" =>
          /\ RequestsOf("web", idx) \cap InFlight = {}
          /\ web.err = "nil" => Decodes(web.resp) /\ web.docs = web.resp.body.documents
    /\ img.st = "done" =>
          /\ RequestsOf("image", idx) \cap InFlight = {}
          /\ img.err = "nil" => Decodes(img.resp)

\* C21: the payload sent for candidate i is made of document i's name,
\* address, category, url and phone, the comments answered to the comment
\* request made for i under i's name, and the first image answered to the
\* image request made for i under i's name ("" when there is none).  Every
\* request of iteration i asks for document i's name, and a payload marked
\* i stays the payload of document i, one per candidate.
C21_PayloadOfCandidate ==
    /\ [](SlotsOfCurrent)
    /\ [](\A c \in calls : c.cand > 0 =>
              c.cand <= idx /\ c.query = mapDocuments[c.cand].PlaceName)
    /\ [](\A j \in DOMAIN progress : progress[j].cand > 0 =>
              /\ progress[j].cand < idx
              /\ PlaceOf(progress[j].message)
                    = [f \in DOMAIN PlaceOf(progress[j].message)
                          |-> mapDocuments[progress[j].cand][f]]
              /\ \A i \in DOMAIN progress :
                    progress[i].cand = progress[j].cand => i = j)
    /\ [][(pc = "wait" /\ progress' # progress) =>
              /\ web.st = "done" /\ img.st = "done"
              /\ progress' = progress \o <<[token |-> progressToken, cand |-> idx,
                                             message |-> PayloadFor(idx, web.resp, img.resp)]>>]_vars

\* Two places were sent: the first without comments or image, the second
\* with a comment and an image.
C21_Witness ==
    /\ Len(mapDocuments) = 2
    /\ mapDocuments[1].PlaceName # mapDocuments[2].PlaceName
    /\ \E i, j \in DOMAIN progress :
          /\ progress[i].cand = 1 /\ progress[j].cand = 2
          /\ progress[i].message[7][2] = <<>> /\ progress[i].message[6][2] = ""
          /\ progress[j].message[7][2] # <<>> /\ progress[j].message[6][2] = "img1"

\* The variables a goroutine assigns.
WriteSet(op) == {IF op = "web" THEN "webDocs" ELSE "imgDoc", errSlot(op)}

\* C22: the two goroutines of a candidate assign different variables
\* (webDocs and webErr; imgDoc and imgErr); the variables are new and zero at
\* the start of every iteration and stay zero until their goroutine
\* finishes, when they hold what that goroutine's fetch returned; an
\* assignment happens only while the loop is blocked in wg.Wait(), together
\* with the goroutine's wg.Done(); and the loop reads the variables only
\* once both goroutines are done and the counter is zero.
C22_NoRace ==
    /\ [](WriteSet("web") \cap WriteSet("image") = {})
    /\ [](pc # "wait" => web = idleWeb /\ img = idleImg)
    /\ [](web.st # "done" => web.docs = <<>> /\ web.err = "nil")
    /\ [](img.st # "done" => img.doc = zeroImageDocument /\ img.err = "nil")
    /\ [](web.st = "done" =>
              /\ web.docs = fetchWebDocuments(web.resp).docs
              /\ web.err = fetchWebDocuments(web.resp).err)
    /\ [](img.st = "done" =>
              /\ img.doc = fetchImageDocument(img.resp).doc
              /\ img.err = fetchImageDocument(img.resp).err)
    /\ [][(pc = "wait" /\ pc' = "wait" /\
             <<web.docs, web.err, img.doc, img.err>>' # <<web.docs, web.err, img.doc, img.err>>) =>
              /\ wg > 0 /\ wg' = wg - 1 /\ idx' = idx
              /\ \/ web.st = "inflight" /\ web'.st = "done" /\ img' = img
                 \/ img.st = "inflight" /\ img'.st = "done" /\ web' = web]_vars
    /\ [][(pc = "wait" /\ pc' # "wait") =>
              /\ wg = 0
              /\ web.st = "done" /\ img.st = "done"
              /\ web' = idleWeb /\ img' = idleImg]_vars

\* The second candidate's comments are in and its image fetch has failed,
\* after a first candidate whose two fetches succeeded.
C22_Witness ==
    /\ idx = 2 /\ pc = "wait" /\ wg = 0
    /\ PayloadsOf(1) # {}
    /\ web.err = "nil" /\ web.docs # <<>>
    /\ img.err # "nil" /\ img.doc = zeroImageDocument

\* The result that goes with each terminal position.
TerminalResult ==
    /\ pc = "rejected" => result.kind = "result" /\ result.IsError
    /\ pc = "failed" => result.kind = "error"
    /\ pc = "completed" => result = Completion

\* C23: every upstream request being answered or timing out, a call reaches
\* a terminal position (rejected, failed or completed), where it has
\* returned the one result of that position and has no request in flight
\* and no goroutine left; it then takes no further step: no request, no
\* notification, no other result.
C23_SingleTerminal ==
    /\ <>(pc \in Terminal)
    /\ [](pc \in Terminal <=> result # NoResult)
    /\ [](pc \in Terminal =>
              /\ TerminalResult
              /\ InFlight = {}
              /\ web.st = "none" /\ img.st = "none")
    /\ [][pc \notin Terminal]_vars
    /\ [][result = NoResult]_<<result>>

\* A call that was cancelled while two requests were in flight has
\* completed.
C23_Witness ==
    /\ pc = "completed"
    /\ ctxDone /\ cancelAt > 0
    /\ Cardinality(calls) >= 3
    /\ InFlight = {}

\* What the Kakao API answers to operation op with query q.
AnswerTo(op, q) == (CHOOSE a \in gateway.answers : a.op = op /\ a.query = q).resp

\* The result messages a call notifies for the first n of docs when nothing
\* runs beside it.
RECURSIVE AlonePayloads(_, _)
AlonePayloads(docs, n) ==
    IF n = 0 THEN <<>>
    ELSE LET w == fetchWebDocuments(AnswerTo("web", docs[n].PlaceName))
             i == fetchImageDocument(AnswerTo("image", docs[n].PlaceName))
         IN  AlonePayloads(docs, n - 1) \o
                 (IF enrichFailed(w.err, i.err) THEN <<>>
                  ELSE <<jsonMarshal(KakaoLocalSearchResult(docs[n], w.docs, i.doc)).bytes>>)

\* The call with frame f is where it would be had it run alone: its
\* notifications carry its token, and what it has notified and returned
\* follows from its own query and the API's answers.
AsAlone(f) ==
    /\ \A j \in DOMAIN f.progress : f.progress[j].token = f.progressToken
    /\ f.pc \in {"idle", "start", "rejected"} => f.progress = <<>> /\ f.calls = {}
    /\ f.pc \in Terminal <=> f.result # NoResult
    /\ f.pc = "rejected" <=> (f.result # NoResult /\ queryEmpty(f.query))
    /\ \A c \in f.calls :
          c.query = (IF c.cand = 0 THEN f.query ELSE f.mapDocuments[c.cand].PlaceName)
    /\ f.mapFetch.st = "done" =>
          LET m == fetchMapDocuments(AnswerTo("map", f.query))
              sent == SelectSeq(f.progress, LAMBDA n : n.cand > 0)
          IN  /\ f.mapFetch.resp = AnswerTo("map", f.query)
              /\ f.pc = "failed" <=> m.err # "nil"
              /\ m.err # "nil" => Len(f.progress) = 1
              /\ m.err = "nil" =>
                    /\ f.mapDocuments = m.docs
                    /\ Messages(sent) = AlonePayloads(m.docs, f.idx - 1)
                    /\ f.pc = "completed" =>
                          /\ f.idx = Len(m.docs) + 1
                          /\ f.result = Completion

\* C24: kakaoAPIKey is assigned by main before the server listens and by
\* nothing else; of two calls of searchTool running at the same time on
\* one server, a step of one changes nothing of the other, and each
\* notifies, under its own token, the result messages it would notify
\* running alone, and returns what it would return.
C24_Isolated ==
    /\ [](AsAlone(Locals) /\ AsAlone(other))
    /\ [](progressToken # other.progressToken)
    /\ [][kakaoAPIKey' # kakaoAPIKey =>
              mainPc = "start" /\ pc = "idle" /\ other.pc = "idle"]_vars
    /\ [][IF running' = running THEN other' = other
           ELSE other' = Locals /\ Locals' = other /\ gateway' = gateway]_vars

\* Both calls are between spawn and join, for different places: one has a
\* comment fetch in flight, the other has its image and has already
\* notified a result.
C24_Witness ==
    /\ pc = "wait" /\ web.st = "inflight"
    /\ other.pc = "wait" /\ other.img.st = "done" /\ other.web.st # "done"
    /\ other.idx = 2 /\ Len(other.progress) = 2
    /\ mapDocuments # other.mapDocuments
    /\ web.d # other.web.d

\* Notifications handed to NotifyProgress after the session was lost.
Undelivered == IF lostFrom = 0 THEN {} ELSE {j \in DOMAIN progress : j >= lostFrom}

\* C25: when NotifyProgress returns an error for the prompt or for a result,
\* the call goes on as it would have: it fails only if place search failed,
\* every map document whose two fetches succeeded is still notified once,
\* searchTool always has a next step until it has returned, and when place
\* search succeeded it returns the completion result after the last map
\* document.
C25_DeliveryIgnored ==
    Undelivered # {} =>
        /\ pc = "failed" => MapFailed
        /\ result.kind = "error" => MapFailed
        /\ Len(Announcements) = 1
        /\ \A k \in Candidates :
              (Processed(k) /\ FetchesOk(k)) => Cardinality(PayloadsOf(k)) = 1
        /\ pc \notin Terminal => ENABLED Step
        /\ pc \in Terminal =>
              \/ pc = "failed" /\ MapFailed
              \/ /\ pc = "completed" /\ result = Completion
                 /\ idx = Len(mapDocuments) + 1

\* The prompt and a result were handed to a lost session and the call has
\* completed.
C25_Witness ==
    /\ lostFrom = 1
    /\ Cardinality(Undelivered) >= 2
    /\ pc = "completed"
    /\ result = Completion

\* C26: a call with neither a credential nor a query is rejected with the
\* missing-credential text, never with the empty-query text.
C26_CredentialFirst ==
    (kakaoAPIKey = "" /\ query = <<>> /\ result # NoResult) =>
        /\ pc = "rejected"
        /\ result = ToolResult(TRUE, credentialErrorText)
        /\ result # ToolResult(TRUE, queryErrorText)

\* Both inputs were missing and the call has been rejected.
C26_Witness ==
    /\ kakaoAPIKey = "" /\ query = <<>>
    /\ pc = "rejected"
    /\ result.Content = <<credentialErrorText>>

TypeOK ==
    /\ kakaoAPIKey \in APIKeys
    /\ query \in Queries
    /\ ctxDone \in BOOLEAN
    /\ pc \in {"idle", "start", "fetchMap", "awaitMap", "loop", "wait"} \cup Terminal
    /\ idx \in 0..(Len(mapDocuments) + 1)
    /\ wg \in 0..wgAdd
    /\ envKey \in APIKeys
    /\ mainPc \in {"notRun", "start", "loaded", "registered", "listening", "exited"}
    /\ gateway.fixed \in BOOLEAN
    /\ invocation \in 1..2
    /\ running \in 1..2
    /\ lostFrom \in 0..(Len(progress) + 1)
====
